---- MODULE Spec2Model ----
(***************************************************************************)
(* CheckLink (src/checklink.py): the multi-language link crawler, the link *)
(* checker and the content classifier, as a state machine.                 *)
(*                                                                         *)
(* Page text and the site goal are Python strings; they are modelled as    *)
(* sequences of one-character strings so that lower(), split() and the     *)
(* substring test "in" are computed as Python computes them.  URLs, link   *)
(* titles and language codes are only compared for equality and are TLA+   *)
(* strings.                                                                *)
(***************************************************************************)
EXTENDS Integers, Sequences, FiniteSets, TLC

(***************************************************************************)
(* Bounds of the model.                                                    *)
(***************************************************************************)
\* max_depth ranges over 0..MaxDepthBound
MaxDepthBound == 2
\* the goals given to the heuristic have up to MaxGoalWords words
MaxGoalWords == 6

(***************************************************************************)
(* Python string operations.                                               *)
(***************************************************************************)
UpperChars ==
    << "A", "B", "C", "D", "E", "F", "G", "H", "I", "J", "K", "L", "M",
       "N", "O", "P", "Q", "R", "S", "T", "U", "V", "W", "X", "Y", "Z" >>

LowerChars ==
    << "a", "b", "c", "d", "e", "f", "g", "h", "i", "j", "k", "l", "m",
       "n", "o", "p", "q", "r", "s", "t", "u", "v", "w", "x", "y", "z" >>

Whitespace == {" ", "\t", "\n"}

LowerChar(c) ==
    IF \E k \in 1..Len(UpperChars) : UpperChars[k] = c
    THEN LowerChars[CHOOSE k \in 1..Len(UpperChars) : UpperChars[k] = c]
    ELSE c

\* str.lower()
Lower(s) == [k \in 1..Len(s) |-> LowerChar(s[k])]

\* needle in hay  (substring test; the empty string is in every string)
Contains(hay, needle) ==
    \E k \in 0..(Len(hay) - Len(needle)) :
        SubSeq(hay, k + 1, k + Len(needle)) = needle

\* str.strip()
Strip(s) ==
    LET kept == {k \in 1..Len(s) : s[k] \notin Whitespace}
    IN  IF kept = {}
        THEN << >>
        ELSE SubSeq(s, CHOOSE k \in kept : \A m \in kept : k <= m,
                       CHOOSE k \in kept : \A m \in kept : m <= k)

\* where the whitespace-delimited tokens of s start
TokenStarts(s) ==
    {k \in 1..Len(s) : s[k] \notin Whitespace /\ (k = 1 \/ s[k - 1] \in Whitespace)}

\* where the token that starts at k ends
TokenEnd(s, k) ==
    CHOOSE j \in k..Len(s) :
        /\ \A m \in k..j : s[m] \notin Whitespace
        /\ j = Len(s) \/ s[j + 1] \in Whitespace

\* str.split(): the maximal runs of non-whitespace characters, in order
Split(s) ==
    [n \in 1..Cardinality(TokenStarts(s)) |->
        LET k == CHOOSE k \in TokenStarts(s) :
                    Cardinality({m \in TokenStarts(s) : m <= k}) = n
        IN  SubSeq(s, k, TokenEnd(s, k))]

\* s[:n]
Truncate(s, n) == SubSeq(s, 1, IF Len(s) < n THEN Len(s) ELSE n)

Min(a, b) == IF a < b THEN a ELSE b
Max(a, b) == IF a > b THEN a ELSE b

(***************************************************************************)
(* ContentAnalyzer._fallback_analysis                                      *)
(***************************************************************************)
scam_keywords ==
    << <<"g", "e", "t", " ", "r", "i", "c", "h", " ", "q", "u", "i", "c", "k">>,
       <<"g", "u", "a", "r", "a", "n", "t", "e", "e", "d", " ", "m", "o", "n", "e", "y">>,
       <<"c", "l", "i", "c", "k", " ", "h", "e", "r", "e", " ", "n", "o", "w">>,
       <<"l", "i", "m", "i", "t", "e", "d", " ", "t", "i", "m", "e", " ", "o", "f", "f", "e", "r">>,
       <<"a", "c", "t", " ", "n", "o", "w">>,
       <<"f", "r", "e", "e", " ", "m", "o", "n", "e", "y">>,
       <<"c", "o", "n", "g", "r", "a", "t", "u", "l", "a", "t", "i", "o", "n", "s", " ", "y", "o", "u", " ", "w", "o", "n">>,
       <<"u", "r", "g", "e", "n", "t", " ", "a", "c", "t", "i", "o", "n", " ", "r", "e", "q", "u", "i", "r", "e", "d">>,
       <<"s", "u", "s", "p", "i", "c", "i", "o", "u", "s", " ", "a", "c", "t", "i", "v", "i", "t", "y">>,
       <<"v", "e", "r", "i", "f", "y", " ", "a", "c", "c", "o", "u", "n", "t", " ", "i", "m", "m", "e", "d", "i", "a", "t", "e", "l", "y">> >>

\* the phrases are looked for in the text as it is, not lower-cased
SuspiciousCaseSensitive(content) ==
    \E k \in 1..Len(scam_keywords) : Contains(content, scam_keywords[k])

\* any(keyword in content_lower for keyword in scam_keywords)
Suspicious(content) ==
    \E k \in 1..Len(scam_keywords) : Contains(Lower(content), scam_keywords[k])

\* sum(1 for word in goal_words if word in content_lower)
GoalMatches(content, goal) ==
    LET goal_words == Split(Lower(goal))
    IN  Cardinality({k \in 1..Len(goal_words) :
                        Contains(Lower(content), goal_words[k])})

\* the count is doubled and not clamped
RelevanceScoreUnclamped(content, goal) == GoalMatches(content, goal) * 2

\* min(10, max(1, relevance_score * 2))
RelevanceScore(content, goal) == Min(10, Max(1, GoalMatches(content, goal) * 2))

\* The summary f-string is kept as the tuple of the values it formats.
FallbackAnalysis(content, goal) ==
    [ relevance_score |-> RelevanceScore(content, goal),
      is_suspicious   |-> Suspicious(content),
      reasons         |-> IF Suspicious(content)
                          THEN << "Keyword-based analysis" >>
                          ELSE << >>,
      summary         |-> << "Relevance", RelevanceScore(content, goal),
                             "Suspicious", Suspicious(content) >> ]

(***************************************************************************)
(* The web the checker runs against: URLs, pages, fetch outcomes and the   *)
(* replies of the external model.                                          *)
(***************************************************************************)
U_home == "http://site/"
U_a    == "http://site/a"
U_b    == "http://site/b"
U_c    == "http://site/c"
U_fr   == "http://site/?lang=fr"
U_fr2  == "http://site/fr/?lang=fr"
U_de   == "http://de.other/?lang=de"
U_ext  == "http://other/"
U_mail == "mailto:info@site"

\* the URLs a fetch can be issued on
Urls == {U_home, U_a, U_b, U_c, U_fr, U_fr2, U_de, U_ext}

\* urlparse(url).netloc
netloc(url) ==
    CASE url \in {U_home, U_a, U_b, U_c, U_fr, U_fr2} -> "site"
      [] url = U_de                                   -> "de.other"
      [] url = U_ext                                  -> "other"
      [] OTHER                                        -> ""

\* parse_qs(urlparse(href).query)['lang'][0], "" when href has no lang parameter
LangParam(href) ==
    CASE href \in {U_fr, U_fr2} -> "fr"
      [] href = U_de            -> "de"
      [] OTHER                  -> ""

\* full_url.startswith(('http://', 'https://'))
IsHttp(full_url) == full_url \in Urls

TxtEmpty    == << >>
TxtArtShop  == <<"A", "r", "t", " ", "S", "h", "o", "p">>
TxtHome     == <<"A", "r", "t", " ", "S", "h", "o", "p", " ", "n", "e", "w", "s">>
TxtParty    == <<"P", "a", "r", "t", "y">>
TxtScam     == <<"a", "r", "t", " ", "s", "h", "o", "p", " ", "A", "c", "t", " ", "N", "o", "w">>
TxtShopArt  == <<"s", "h", "o", "p", " ", "a", "r", "t">>
TxtBoutique == <<"B", "o", "u", "t", "i", "q", "u", "e">>
TxtFr       == <<"B", "o", "u", "t", "i", "q", "u", "e", " ", "a", "r", "t">>
TxtLaden    == <<"L", "a", "d", "e", "n">>
TxtNotFound == <<"N", "o", "t", " ", "F", "o", "u", "n", "d">>

\* An <a href> element: its visible text (or title attribute) and its href,
\* already resolved by urljoin.
Anchor(text, href) == [text |-> text, href |-> href]

Elem(text) == [has |-> TRUE, text |-> text]
NoElem     == [has |-> FALSE, text |-> << >>]

\* An <h1>, <h2>, <meta> or <p> element: its tag, its name and class
\* attributes ("" when it has none), its content attribute and its text.
Tag(tag, name, class, content, text) ==
    [tag |-> tag, name |-> name, class |-> class, content |-> content, text |-> text]

\* <meta name="description" content=...>, with or without a class attribute
MetaDescription(class, content) == Tag("meta", "description", class, content, << >>)

\* A parsed document: its anchors in document order, its <title>, its first
\* <p>, its <h1>, <h2>, <meta> and <p> elements in document order, and
\* get_text().
Page(anchors, title, text) ==
    [ anchors  |-> anchors,
      title    |-> title,
      first_p  |-> NoElem,
      elements |-> << >>,
      text     |-> text ]

EmptyPage == Page(<< >>, NoElem, TxtEmpty)

\* the body a server sends with an HTTP error status
ErrorPage == Page(<< >>, Elem(TxtNotFound), TxtNotFound)

P_a   == Page(<< Anchor("B", U_b) >>, Elem(TxtParty), TxtParty)
P_b   == Page(<< Anchor("C", U_c) >>, NoElem, TxtScam)
P_c   == Page(<< Anchor("Home", U_home) >>, NoElem, TxtShopArt)

\* a diamond (home -> a -> b, home -> b) closed into a cycle (c -> home)
SiteDiamond ==
    [u \in Urls |->
        CASE u = U_home -> Page(<< Anchor("A", U_a), Anchor("B", U_b) >>,
                                Elem(TxtArtShop), TxtHome)
          [] u = U_a    -> P_a
          [] u = U_b    -> P_b
          [] u = U_c    -> P_c
          [] OTHER      -> EmptyPage]

\* self-links, a cross-domain link, a mailto link and a repeated target
SiteSelf ==
    [u \in Urls |->
        CASE u = U_home -> Page(<< Anchor("", U_home), Anchor("Ext", U_ext),
                                   Anchor("Mail", U_mail), Anchor("A", U_a),
                                   Anchor("A again", U_a) >>,
                                Elem(TxtArtShop), TxtHome)
          [] u = U_a    -> Page(<< Anchor("Ext", U_ext), Anchor("A", U_a),
                                   Anchor("C", U_c) >>,
                                Elem(TxtParty), TxtParty)
          [] u = U_c    -> P_c
          [] OTHER      -> EmptyPage]

\* a language switcher: a same-host French variant, a German variant on
\* another host whose page has no title and no paragraph, and a second anchor
\* for French with another name and URL
SiteLang ==
    [u \in Urls |->
        CASE u = U_home -> [Page(<< Anchor("Francais", U_fr), Anchor("", U_de),
                                    Anchor("A", U_a), Anchor("French", U_fr2) >>,
                                 Elem(TxtArtShop), TxtHome)
                            EXCEPT !.elements =
                                << MetaDescription("about-us", TxtArtShop) >>]
          [] u = U_fr   -> Page(<< Anchor("Francais", U_fr), Anchor("A", U_a),
                                   Anchor("C", U_c) >>,
                                Elem(TxtBoutique), TxtFr)
          [] u = U_de   -> Page(<< Anchor("A", U_a), Anchor("Ext", U_ext) >>,
                                NoElem, TxtLaden)
          [] u = U_a    -> P_a
          [] u = U_b    -> P_b
          [] u = U_c    -> P_c
          [] OTHER      -> EmptyPage]

\* a site without a switcher that is entered through a URL with a lang
\* parameter; its homepage has a plain meta description
SiteParam ==
    [u \in Urls |->
        CASE u = U_fr -> [Page(<< Anchor("A", U_a) >>, Elem(TxtBoutique), TxtFr)
                          EXCEPT !.elements =
                              << MetaDescription("", TxtShopArt) >>]
          [] u = U_a  -> P_a
          [] u = U_b  -> P_b
          [] OTHER    -> EmptyPage]

\* The sites, by name; the state holds the name of the one being served.
Sites == {"diamond", "self", "lang", "param"}

PageOf(name, url) ==
    CASE name = "diamond" -> SiteDiamond[url]
      [] name = "self"    -> SiteSelf[url]
      [] name = "param"   -> SiteParam[url]
      [] OTHER            -> SiteLang[url]

\* Outcomes of session.get(url, timeout=10)
Resp(code, phrase) == [kind |-> "response",   code |-> code, msg |-> phrase]
OutOk         == Resp(200, "OK")
OutBadRequest == Resp(400, "Bad Request")
OutNotFound   == Resp(404, "Not Found")
OutTimeout    == [kind |-> "timeout",    code |-> 0, msg |-> "Read timed out"]
OutConnection == [kind |-> "connection", code |-> 0, msg |-> "Connection refused"]
OutOther      == [kind |-> "other",      code |-> 0, msg |-> "Exceeded 30 redirects"]

Failures == {OutNotFound, OutTimeout, OutConnection, OutOther}

\* Networks: either every fetch succeeds, or the fetches of one URL always
\* fail in one way, or one URL is unreliable.  A network names that URL and
\* the outcomes its fetches can have; every other fetch succeeds.
Net(url, outcomes) == [url |-> url, outcomes |-> outcomes]

NetAllOk == Net("", {OutOk})

Nets ==
    {NetAllOk}
    \cup {Net(u, {o}) : u \in Urls, o \in Failures}
    \cup {Net(u, {OutOk, OutBadRequest}) : u \in {U_home, U_a}}

OutcomesOf(network, url) ==
    IF url = network.url THEN network.outcomes ELSE {OutOk}

\* Replies of openai.ChatCompletion.create followed by eval(): the call
\* raises, the text does not evaluate, or it evaluates to a dict.
Verdict(score, suspicious, reasons) ==
    [ relevance_score |-> score,
      is_suspicious   |-> suspicious,
      reasons         |-> reasons,
      summary         |-> << "AI summary" >> ]

AiReplies ==
    { [kind |-> "raise",     value |-> << >>],
      [kind |-> "malformed", value |-> << >>],
      [kind |-> "dict",      value |-> [relevance_score |-> 7]],
      [kind |-> "dict",      value |-> Verdict(7, FALSE, << >>)],
      [kind |-> "dict",      value |-> Verdict(3, FALSE, << >>)],
      [kind |-> "dict",      value |-> Verdict(11, TRUE, << "phishing", "casino" >>)] }

\* ContentAnalyzer() configurations: no credential, or a credential and the
\* reply the service gives during this run.
AiConfigs ==
    {[has_key |-> FALSE, reply |-> [kind |-> "raise", value |-> << >>]]}
    \cup {[has_key |-> TRUE, reply |-> r] : r \in AiReplies}

(***************************************************************************)
(* Program constants.                                                      *)
(***************************************************************************)
\* goal_text.strip()[:500]
GoalMaxLen == 500
\* response.status_code >= 400
HttpErrorStatus == 400
\* analysis['relevance_score'] < 4
LowRelevanceBelow == 4

(***************************************************************************)
(* State.                                                                  *)
(***************************************************************************)
VARIABLES
    site,                 \* the name of the site served
    net,                  \* the network: which fetches fail
    ai,                   \* the ContentAnalyzer configuration
    max_depth,            \* self.max_depth
    visited_links,        \* self.visited_links
    main_website_goal,    \* self.main_website_goal
    detected_languages,   \* self.detected_languages
    pc,                   \* position in analyze_all_languages
    langs,                \* the list the variant loop iterates over
    li,                   \* index of the variant being analysed
    stack,                \* the active get_all_links calls, innermost last
    all_links,            \* analyze_language_version: all_links
    ci,                   \* index of the edge being checked
    problematic_links,    \* analyze_language_version: problematic_links
    results_by_language,  \* analyze_all_languages: results_by_language
    crawl_log,            \* history: the crawler's fetches of this pass
    earlier_fetched,      \* history: URLs the crawler fetched in earlier passes
    last_check,           \* history: the last check_link call
    check_log,            \* history: what check_link returned, edge by edge
    heuristic_log,        \* history: the _fallback_analysis calls of the run
    io_log,               \* history: the fetches and sleeps of the run
    call                  \* a _fallback_analysis call made on its own

vars ==
    << site, net, ai, max_depth, visited_links, main_website_goal,
       detected_languages, pc, langs, li, stack, all_links, ci,
       problematic_links, results_by_language, crawl_log, earlier_fetched,
       last_check, check_log, heuristic_log, io_log, call >>

world == << site, net, ai, max_depth, call >>

\* self.base_url, and self.base_domain = urlparse(base_url).netloc
base_url    == IF site = "param" THEN U_fr ELSE U_home
base_domain == netloc(base_url)

(***************************************************************************)
(* MultiLanguageLinkChecker.detect_languages                               *)
(***************************************************************************)
LanguageVersion(code, name, url) == [code |-> code, name |-> name, url |-> url]

\* current_lang.upper()
UpperCode(code) ==
    CASE code = "fr" -> "FR"
      [] code = "de" -> "DE"
      [] OTHER       -> code

\* the switcher loop without its duplicate test: every anchor with a lang
\* parameter becomes a variant
RECURSIVE SwitcherLanguagesAll(_, _)
SwitcherLanguagesAll(anchors, languages) ==
    IF anchors = << >>
    THEN languages
    ELSE LET link      == Head(anchors)
             lang_code == LangParam(link.href)
             lang_name == IF link.text # "" THEN link.text ELSE lang_code
         IN  IF lang_code # ""
             THEN SwitcherLanguagesAll(Tail(anchors),
                      Append(languages,
                             LanguageVersion(lang_code, lang_name, link.href)))
             ELSE SwitcherLanguagesAll(Tail(anchors), languages)

\* The switcher loop: the anchors whose href carries a lang parameter, in
\* document order, the first of each code kept.
RECURSIVE SwitcherLanguages(_, _)
SwitcherLanguages(anchors, languages) ==
    IF anchors = << >>
    THEN languages
    ELSE LET link      == Head(anchors)
             lang_code == LangParam(link.href)
             lang_name == IF link.text # "" THEN link.text ELSE lang_code
             full_url  == link.href
         IN  IF lang_code # ""
                /\ ~ \E k \in 1..Len(languages) : languages[k].code = lang_code
             THEN SwitcherLanguages(Tail(anchors),
                      Append(languages,
                             LanguageVersion(lang_code, lang_name, full_url)))
             ELSE SwitcherLanguages(Tail(anchors), languages)

\* nothing is added when no language was detected
NoLanguages == << >>

DefaultLanguages == << LanguageVersion("default", "Default", base_url) >>

DetectLanguages(soup) ==
    LET found == SwitcherLanguages(soup.anchors, << >>)
    IN  IF found # << >>
        THEN found
        ELSE IF LangParam(base_url) # ""
             THEN << LanguageVersion(LangParam(base_url),
                                     UpperCode(LangParam(base_url)), base_url) >>
             ELSE DefaultLanguages

(***************************************************************************)
(* MultiLanguageLinkChecker.extract_main_goal                              *)
(***************************************************************************)
\* re.compile(r'(about|mission|purpose)', re.I) on the class values of the
\* pages; an element without a class attribute does not match
ClassMatches(class) == class \in {"about-us", "Mission", "purpose-text"}

\* find_all(['h1', 'h2', 'meta', 'p'], attrs={'name': [...], 'class': ...}):
\* an element is selected when its name attribute and its class both match
IsGoalElement(e) ==
    /\ e.tag \in {"h1", "h2", "meta", "p"}
    /\ e.name \in {"description", "keywords"}
    /\ ClassMatches(e.class)

RECURSIVE GoalElementsText(_)
GoalElementsText(elems) ==
    IF elems = << >>
    THEN << >>
    ELSE (IF Head(elems).tag = "meta" THEN Head(elems).content ELSE Head(elems).text)
         \o << " " >> \o GoalElementsText(Tail(elems))

ExtractMainGoal(soup) ==
    LET goal_text == GoalElementsText(SelectSeq(soup.elements, IsGoalElement))
        fallback  ==
            (IF soup.title.has THEN soup.title.text \o << " " >> ELSE << >>)
            \o (IF soup.first_p.has THEN soup.first_p.text ELSE << >>)
    IN  IF Strip(goal_text) = << >>
        THEN Truncate(Strip(goal_text \o fallback), GoalMaxLen)
        ELSE Truncate(Strip(goal_text), GoalMaxLen)

(***************************************************************************)
(* ContentAnalyzer.analyze_content                                         *)
(***************************************************************************)
\* analyze_content ends in _fallback_analysis: no credential, or the call or
\* eval() raises
UsesFallback == ~ ai.has_key \/ ai.reply.kind # "dict"

\* the heuristic keeps a memory: once a link was reported, every text is
\* suspicious
AnalyzeContentRemembering(content, goal) ==
    IF UsesFallback
    THEN [FallbackAnalysis(content, goal) EXCEPT
              !.is_suspicious = @ \/ problematic_links # << >>]
    ELSE ai.reply.value

\* The dict analyze_content returns: the heuristic verdict without a
\* credential or when the call or eval() raises, else whatever eval() gave.
AnalyzeContent(content, goal) ==
    IF UsesFallback
    THEN FallbackAnalysis(content, goal)
    ELSE ai.reply.value

(***************************************************************************)
(* MultiLanguageLinkChecker.check_link                                     *)
(***************************************************************************)
\* the language argument is dropped: every result keeps the field's default
LinkResultDefaultLanguage(title, url, status, reason, content_snippet, language) ==
    [ title |-> title, url |-> url, status |-> status, reason |-> reason,
      content_snippet |-> content_snippet, language |-> "unknown" ]

LinkResult(title, url, status, reason, content_snippet, language) ==
    [ title |-> title, url |-> url, status |-> status, reason |-> reason,
      content_snippet |-> content_snippet, language |-> language ]

\* check_link's "return None"
None == LinkResult("", "", "None", << >>, << >>, "")

\* the body of a response: the page, or the server's error page
Body(url, o) == IF o.code < HttpErrorStatus THEN PageOf(site, url) ELSE ErrorPage

\* response.status_code >= 400
IsHttpError(o) == o.code >= HttpErrorStatus

\* every exception is caught by one general clause
ExceptionStatusGeneric(o) == "ERROR"

\* the except clauses of check_link, in order
ExceptionStatus(o) ==
    CASE o.kind = "timeout"    -> "TIMEOUT"
      [] o.kind = "connection" -> "CONNECTION_ERROR"
      [] OTHER                 -> "ERROR"

ExceptionReason(o) ==
    CASE o.kind = "timeout"    -> << "Request timeout" >>
      [] o.kind = "connection" -> << "Connection failed" >>
      [] OTHER                 -> << o.msg >>

Has(analysis, key) == key \in DOMAIN analysis

\* The first key check_link reads from the dict that is not in it ("" when
\* every key it reads is there): the KeyError its last except clause catches.
MissingKey(analysis) ==
    IF ~ Has(analysis, "is_suspicious") THEN "is_suspicious"
    ELSE IF analysis.is_suspicious /\ ~ Has(analysis, "reasons") THEN "reasons"
    ELSE IF ~ Has(analysis, "relevance_score") THEN "relevance_score"
    ELSE IF (analysis.is_suspicious \/ analysis.relevance_score < LowRelevanceBelow)
            /\ ~ Has(analysis, "summary") THEN "summary"
    ELSE ""

\* only the suspicious verdict is reported
IssuesSuspiciousOnly(analysis) ==
    IF analysis.is_suspicious
    THEN << << "SUSPICIOUS", analysis.reasons >> >>
    ELSE << >>

\* The issues list; each entry keeps the values its f-string formats.
Issues(analysis) ==
    (IF analysis.is_suspicious
     THEN << << "SUSPICIOUS", analysis.reasons >> >>
     ELSE << >>)
    \o (IF analysis.relevance_score < LowRelevanceBelow
        THEN << << "LOW RELEVANCE", analysis.relevance_score >> >>
        ELSE << >>)

\* One check_link call whose fetch had outcome o: whether analyze_content
\* was called, the dict it returned, and the value check_link returns.
CheckLink(title, url, language, o) ==
    IF o.kind # "response"
    THEN [ classified |-> FALSE, analysis |-> << >>,
           result |-> LinkResult(title, url, ExceptionStatus(o),
                                 ExceptionReason(o), << >>, language) ]
    ELSE IF IsHttpError(o)
    THEN [ classified |-> FALSE, analysis |-> << >>,
           result |-> LinkResult(title, url, "BROKEN",
                                 << "HTTP", o.code, o.msg >>, << >>, language) ]
    ELSE LET content  == Body(url, o).text
             analysis == AnalyzeContent(content, main_website_goal)
         IN  [ classified |-> TRUE, analysis |-> analysis,
               result |->
                   IF MissingKey(analysis) # ""
                   THEN LinkResult(title, url, "ERROR",
                                   << MissingKey(analysis) >>, << >>, language)
                   ELSE IF Issues(analysis) # << >>
                   THEN LinkResult(title, url, "FLAGGED", Issues(analysis),
                                   analysis.summary, language)
                   ELSE None ]

(***************************************************************************)
(* MultiLanguageLinkChecker.get_all_links                                  *)
(***************************************************************************)
\* if depth > self.max_depth or url in self.visited_links: return []
ReturnsEarly(visited, url, depth) == depth > max_depth \/ url \in visited

\* the call forgets to record the URL
MarkVisitedForgotten(visited, url) == visited

\* self.visited_links.add(url)
MarkVisited(visited, url) == visited \cup {url}

\* the recursion follows links to any host
RecurseAnyDomain(full_url, depth) == depth < max_depth

\* if depth < self.max_depth and urlparse(full_url).netloc == self.base_domain
Recurse(full_url, depth) == depth < max_depth /\ netloc(full_url) = base_domain

\* the edge is recorded under its href whatever the anchor's text
TitleHrefOnly(link) == link.href

\* link.get_text(strip=True) or link.get('title', '') or href
Title(link) == IF link.text # "" THEN link.text ELSE link.href

\* the loop does not move on
SameAnchor(i) == i

\* the for loop's step to the next anchor
NextAnchor(i) == i + 1

\* entries of the run's log: a session.get and a time.sleep(self.delay)
Fetched(phase, variant, url) ==
    [op |-> "fetch", phase |-> phase, variant |-> variant, url |-> url]
Slept(phase, variant) ==
    [op |-> "sleep", phase |-> phase, variant |-> variant, url |-> ""]

\* the except clause lets every failure of the fetch through
CrawlCatchesNothing(o) == FALSE

\* except Exception: it catches whatever session.get and raise_for_status raise
CrawlCatches(o) == TRUE

\* the recursive call is made at the depth of its caller
SameDepth(depth) == depth

\* self.get_all_links(full_url, depth + 1)
ChildDepth(depth) == depth + 1

\* A call that did not return early: the URL is marked, the fetch is next.
Frame(url, depth) ==
    [ url |-> url, depth |-> depth, st |-> "fetch", body |-> << >>, i |-> 1,
      links |-> << >> ]

Top == stack[Len(stack)]
Callers == SubSeq(stack, 1, Len(stack) - 1)

\* the caller's list is replaced by the edges of the sub-crawl
Replaced(own, sub) == sub

\* the edges of the sub-crawl are put in front of the caller's own
Prepended(own, sub) == sub \o own

\* links.extend(self.get_all_links(full_url, depth + 1))
Extend(own, sub) == own \o sub

\* "return links" of the innermost call: the caller extends its list with
\* them; the outermost call hands them to analyze_language_version.
Return(links) ==
    IF Callers = << >>
    THEN /\ stack' = << >>
         /\ all_links' = links
         /\ pc' = "check"
         /\ ci' = 1
         /\ problematic_links' = << >>
    ELSE /\ stack' = [Callers EXCEPT ![Len(Callers)].links = Extend(@, links)]
         /\ UNCHANGED << all_links, pc, ci, problematic_links >>

\* session.get + raise_for_status + BeautifulSoup of the innermost call.
CrawlFetch ==
    /\ pc = "crawl"
    /\ Top.st = "fetch"
    /\ \E o \in OutcomesOf(net, Top.url) :
          LET ok == o.kind = "response" /\ ~ IsHttpError(o)
              soup == Body(Top.url, o)
          IN  /\ crawl_log' = Append(crawl_log,
                     [url |-> Top.url, depth |-> Top.depth, ok |-> ok])
              /\ IF ok
                 THEN /\ stack' = [stack EXCEPT ![Len(stack)].st = "loop",
                                                ![Len(stack)].body = soup.anchors]
                      /\ IF Top.depth = 0
                         THEN /\ main_website_goal' = ExtractMainGoal(soup)
                              /\ detected_languages' = DetectLanguages(soup)
                         ELSE UNCHANGED << main_website_goal, detected_languages >>
                      /\ UNCHANGED << all_links, pc, ci, problematic_links >>
                 ELSE /\ IF CrawlCatches(o)
                         THEN Return(<< >>)
                         ELSE /\ pc' = "raised"
                              /\ stack' = << >>
                              /\ UNCHANGED << all_links, ci, problematic_links >>
                      /\ UNCHANGED << main_website_goal, detected_languages >>
    /\ io_log' = Append(io_log, Fetched("crawl", li, Top.url))
    /\ UNCHANGED << world, visited_links, langs, li, results_by_language,
                    earlier_fetched, last_check, check_log, heuristic_log >>

\* One iteration of "for link in soup.find_all('a', href=True)".
CrawlAnchor ==
    /\ pc = "crawl"
    /\ Top.st = "loop"
    /\ Top.i <= Len(Top.body)
    /\ LET link     == Top.body[Top.i]
           full_url == link.href
           skipped  == [Top EXCEPT !.i = NextAnchor(@)]
           appended == [Top EXCEPT !.i = NextAnchor(@),
                                   !.links = Append(@, << Title(link), full_url >>)]
       IN  IF ~ IsHttp(full_url)
           THEN /\ stack' = Callers \o << skipped >>
                /\ UNCHANGED visited_links
           ELSE IF Recurse(full_url, Top.depth)
                   /\ ~ ReturnsEarly(visited_links, full_url, ChildDepth(Top.depth))
           THEN /\ stack' = Callers \o << appended,
                                          Frame(full_url, ChildDepth(Top.depth)) >>
                /\ visited_links' = MarkVisited(visited_links, full_url)
           ELSE /\ stack' = Callers \o << appended >>
                /\ UNCHANGED visited_links
    /\ UNCHANGED << world, main_website_goal, detected_languages, pc, langs, li,
                    all_links, ci, problematic_links, results_by_language,
                    crawl_log, earlier_fetched, last_check, check_log, heuristic_log, io_log >>

\* The loop is over: time.sleep(self.delay), return links.
CrawlReturn ==
    /\ pc = "crawl"
    /\ Top.st = "loop"
    /\ Top.i > Len(Top.body)
    /\ io_log' = Append(io_log, Slept("crawl", li))
    /\ Return(Top.links)
    /\ UNCHANGED << world, visited_links, main_website_goal, detected_languages,
                    langs, li, results_by_language, crawl_log, earlier_fetched,
                    last_check, check_log, heuristic_log >>

(***************************************************************************)
(* MultiLanguageLinkChecker.analyze_language_version                       *)
(***************************************************************************)
\* the loop reads self.detected_languages anew at every step
LiveList == detected_languages

\* "for language in self.detected_languages": the list object the loop was
\* started on; the loop head takes its next element, or ends when it has none
LoopList == langs

\* the visited set is carried over from the previous variant
KeptVisited == visited_links

\* self.visited_links.clear()
ClearedVisited == {}

LogUrls(log) == {log[k].url : k \in 1..Len(log)}

\* The head of the variant loop and the start of analyze_language_version:
\* the visited set is reset and get_all_links(language.url) is called.
StartVariant ==
    /\ pc = "variant"
    /\ li <= Len(LoopList)
    /\ LET url     == LoopList[li].url
           cleared == ClearedVisited
       IN  IF ReturnsEarly(cleared, url, 0)
           THEN /\ visited_links' = cleared
                /\ stack' = << >>
                /\ all_links' = << >>
                /\ pc' = "check"
           ELSE /\ visited_links' = MarkVisited(cleared, url)
                /\ stack' = << Frame(url, 0) >>
                /\ all_links' = << >>
                /\ pc' = "crawl"
    /\ ci' = 1
    /\ problematic_links' = << >>
    /\ crawl_log' = << >>
    /\ earlier_fetched' = earlier_fetched \cup LogUrls(crawl_log)
    /\ check_log' = << >>
    /\ UNCHANGED heuristic_log
    /\ UNCHANGED << world, main_website_goal, detected_languages, langs, li,
                    results_by_language, last_check, io_log >>

\* every second edge is checked
SkipEdge(i) == i + 2

\* "for i, (title, url) in enumerate(all_links, 1)": on to the next edge
NextEdge(i) == i + 1

\* One iteration of the checking loop: check_link, then time.sleep.
CheckEdge ==
    /\ pc = "check"
    /\ ci <= Len(all_links)
    /\ \E o \in OutcomesOf(net, all_links[ci][2]) :
          LET title == all_links[ci][1]
              url   == all_links[ci][2]
              run   == CheckLink(title, url, langs[li].code, o)
          IN  /\ problematic_links' =
                     IF run.result # None
                     THEN Append(problematic_links, run.result)
                     ELSE problematic_links
              /\ last_check' = [ url |-> url, outcome |-> o,
                                 goal |-> main_website_goal,
                                 content |-> Body(url, o).text,
                                 classified |-> run.classified,
                                 analysis |-> run.analysis,
                                 result |-> run.result ]
              /\ check_log' = Append(check_log, run.result)
              /\ heuristic_log' =
                     IF run.classified /\ UsesFallback
                     THEN Append(heuristic_log,
                                 [ content |-> Body(url, o).text,
                                   goal    |-> main_website_goal,
                                   verdict |-> run.analysis ])
                     ELSE heuristic_log
              /\ io_log' = io_log \o << Fetched("check", li, url),
                                         Slept("check", li) >>
    /\ ci' = NextEdge(ci)
    /\ UNCHANGED << world, visited_links, main_website_goal, detected_languages,
                    pc, langs, li, stack, all_links, results_by_language,
                    crawl_log, earlier_fetched >>

\* the loop analyses the same variant again
SameVariant(i) == i

\* "for language in self.detected_languages": on to the next variant
NextVariant(i) == i + 1

\* return problematic_links; results_by_language[language.code] = results
EndVariant ==
    /\ pc = "check"
    /\ ci > Len(all_links)
    /\ results_by_language' =
           [c \in DOMAIN results_by_language \cup {langs[li].code} |->
               IF c = langs[li].code THEN problematic_links
               ELSE results_by_language[c]]
    /\ li' = NextVariant(li)
    /\ pc' = "variant"
    /\ UNCHANGED << world, visited_links, main_website_goal, detected_languages,
                    langs, stack, all_links, ci, problematic_links, crawl_log,
                    earlier_fetched, last_check, check_log, heuristic_log, io_log >>

(***************************************************************************)
(* MultiLanguageLinkChecker.analyze_all_languages                          *)
(***************************************************************************)
\* The homepage fetch: languages and goal are taken from whatever body comes
\* back (the status is not looked at); an exception selects the default.
DetectHomepage ==
    /\ pc = "start"
    /\ \E o \in OutcomesOf(net, base_url) :
          IF o.kind = "response"
          THEN /\ detected_languages' = DetectLanguages(Body(base_url, o))
               /\ main_website_goal' = ExtractMainGoal(Body(base_url, o))
               /\ langs' = DetectLanguages(Body(base_url, o))
          ELSE /\ detected_languages' = DefaultLanguages
               /\ langs' = DefaultLanguages
               /\ UNCHANGED main_website_goal
    /\ li' = 1
    /\ pc' = "variant"
    /\ io_log' = Append(io_log, Fetched("detect", 0, base_url))
    /\ UNCHANGED << world, visited_links, stack, all_links, ci, problematic_links,
                    results_by_language, crawl_log, earlier_fetched, last_check,
                    check_log, heuristic_log >>

\* The variant loop is exhausted: return results_by_language.
Finish ==
    /\ pc = "variant"
    /\ li > Len(LoopList)
    /\ pc' = "done"
    /\ UNCHANGED << world, visited_links, main_website_goal, detected_languages,
                    langs, li, stack, all_links, ci, problematic_links,
                    results_by_language, crawl_log, earlier_fetched, last_check,
                    check_log, heuristic_log, io_log >>

NoCheck ==
    [ url |-> "", outcome |-> [kind |-> "none", code |-> 0, msg |-> ""],
      goal |-> << >>, content |-> << >>, classified |-> FALSE,
      analysis |-> << >>, result |-> None ]

\* no _fallback_analysis call of its own
NoCall == [content |-> << >>, goal |-> << >>, returned |-> FALSE, verdict |-> << >>]

\* The state after MultiLanguageLinkChecker.__init__.
Constructed ==
    /\ visited_links = {}
    /\ main_website_goal = << >>
    /\ detected_languages = << >>
    /\ pc = "start"
    /\ langs = << >>
    /\ li = 1
    /\ stack = << >>
    /\ all_links = << >>
    /\ ci = 1
    /\ problematic_links = << >>
    /\ results_by_language = << >>
    /\ crawl_log = << >>
    /\ earlier_fetched = {}
    /\ last_check = NoCheck
    /\ check_log = << >>
    /\ heuristic_log = << >>
    /\ io_log = << >>

Init ==
    /\ site \in Sites
    /\ net \in Nets
    /\ ai \in AiConfigs
    /\ max_depth \in 0..MaxDepthBound
    /\ call = NoCall
    /\ Constructed

Next ==
    \/ DetectHomepage
    \/ StartVariant
    \/ CrawlFetch
    \/ CrawlAnchor
    \/ CrawlReturn
    \/ CheckEdge
    \/ EndVariant
    \/ Finish

Spec == Init /\ [][Next]_vars

(***************************************************************************)
(* ContentAnalyzer._fallback_analysis called on its own, on page texts and *)
(* on goals of up to MaxGoalWords words.                                   *)
(***************************************************************************)
GoalWords == { <<"A", "r", "t">>, <<"s", "h", "o", "p">>, <<"z", "z">> }

RECURSIVE JoinWords(_)
JoinWords(ws) ==
    IF ws = << >> THEN << >>
    ELSE IF Len(ws) = 1 THEN Head(ws)
    ELSE Head(ws) \o << " " >> \o JoinWords(Tail(ws))

TxtSpaced   == <<" ", " ", "A", "R", "T", "\t", "s", "h", "o", "p", "\n">>
TxtActNow   == <<"A", "c", "t", " ", "N", "o", "w">>
TxtFreeMoney == <<"F", "R", "E", "E", " ", "M", "O", "N", "E", "Y", " ", "z", "z">>

HeuristicGoals ==
    {JoinWords(ws) : ws \in UNION {[1..n -> GoalWords] : n \in 0..MaxGoalWords}}
    \cup {TxtSpaced, TxtActNow}

HeuristicTexts ==
    {TxtEmpty, TxtArtShop, TxtParty, TxtScam, TxtLaden, TxtFreeMoney, TxtSpaced}

HeuristicInit ==
    /\ site = "diamond"
    /\ net = NetAllOk
    /\ ai = [has_key |-> FALSE, reply |-> [kind |-> "raise", value |-> << >>]]
    /\ max_depth = 0
    /\ call \in {[NoCall EXCEPT !.content = c, !.goal = g] :
                    c \in HeuristicTexts, g \in HeuristicGoals}
    /\ Constructed

\* self._fallback_analysis(content, main_website_goal)
FallbackCall ==
    /\ ~ call.returned
    /\ call' = [call EXCEPT !.returned = TRUE,
                            !.verdict = FallbackAnalysis(call.content, call.goal)]
    /\ UNCHANGED << site, net, ai, max_depth, visited_links, main_website_goal,
                    detected_languages, pc, langs, li, stack, all_links, ci,
                    problematic_links, results_by_language, crawl_log,
                    earlier_fetched, last_check, check_log, heuristic_log, io_log >>

HeuristicNext == FallbackCall

HeuristicSpec == HeuristicInit /\ [][HeuristicNext]_vars

(***************************************************************************)
(* Properties.                                                             *)
(***************************************************************************)
Range(seq) == {seq[k] : k \in 1..Len(seq)}

\* the edges one page contributes: one per http/https anchor, in document order
RECURSIVE PageEdges(_)
PageEdges(anchors) ==
    IF anchors = << >>
    THEN << >>
    ELSE LET a == Head(anchors)
         IN  (IF a.href \in Urls
              THEN << << IF a.text # "" THEN a.text ELSE a.href, a.href >> >>
              ELSE << >>)
             \o PageEdges(Tail(anchors))

EdgeUrls(edges) == {edges[k][2] : k \in 1..Len(edges)}

\* the variant being analysed and its entry URL
Entry == langs[li].url

InPass == pc \in {"crawl", "check"}

\* C1: within one crawl pass every URL is fetched by the crawler at most once.
C1_FetchedAtMostOnce ==
    \A j, k \in 1..Len(crawl_log) :
        crawl_log[j].url = crawl_log[k].url => j = k

\* a finished pass that met its own entry URL again (a cycle or a self-link)
C1_Witness ==
    /\ pc = "check"
    /\ Len(crawl_log) >= 2
    /\ Entry \in EdgeUrls(all_links)

\* The steps one get_all_links call still has to take: its fetch, one per
\* anchor left, its return.
FrameCost(f) ==
    IF f.st = "fetch"
    THEN Len(PageOf(site, f.url).anchors) + 2
    ELSE (Len(f.body) + 1 - f.i) + 1

\* more than any call can cost
CallCost ==
    1 + (CHOOSE n \in {Len(PageOf(site, u).anchors) + 2 : u \in Urls} :
            \A u \in Urls : Len(PageOf(site, u).anchors) + 2 <= n)

RECURSIVE StackCost(_)
StackCost(frames) ==
    IF frames = << >> THEN 0 ELSE FrameCost(Head(frames)) + StackCost(Tail(frames))

\* A bound on the steps the crawl pass can still take: the calls in progress
\* and one call for every URL not yet visited.
CrawlRank == CallCost * Cardinality(Urls \ visited_links) + StackCost(stack)

\* the crawler has a step to take
CrawlCanStep ==
    /\ stack # << >>
    /\ \/ Top.st = "fetch" /\ OutcomesOf(net, Top.url) # {}
       \/ Top.st = "loop"

\* C2: a crawl pass that has started always comes to its end, whatever the
\* link graph, the depth bound and the fetch outcomes: while it runs the
\* crawler always has a step to take, and every step strictly lowers a
\* natural number, so only finitely many steps can follow.
C2_CrawlTerminates ==
    [][ /\ pc' = "crawl" => CrawlCanStep'
        /\ pc = "crawl" => CrawlRank' < CrawlRank /\ CrawlRank' >= 0 ]_vars

\* a finished pass over a link cycle in which a fetch failed
C2_Witness ==
    /\ pc = "check"
    /\ max_depth >= 1
    /\ \E k \in 1..Len(crawl_log) : ~ crawl_log[k].ok
    /\ \E k \in 1..Len(all_links) : all_links[k][2] \in LogUrls(crawl_log)


\* the http/https anchor targets of the page at url
HttpTargets(url) ==
    {PageOf(site, url).anchors[k].href : k \in 1..Len(PageOf(site, url).anchors)}
        \cap Urls

\* Reference enumeration: the pages within k same-domain anchor hops of entry.
RECURSIVE ReachWithin(_, _)
ReachWithin(entry, k) ==
    IF k = 0
    THEN {entry}
    ELSE LET near == ReachWithin(entry, k - 1)
         IN  near \cup {t \in UNION {HttpTargets(p) : p \in near} :
                           netloc(t) = base_domain}

BfsEdgeUrls(entry, depth) == UNION {HttpTargets(p) : p \in ReachWithin(entry, depth)}

\* C3: with every fetch succeeding, the edge URLs of the crawl are those of a
\* breadth-first enumeration with the same depth bound: every http/https
\* anchor target of every page within max_depth same-domain hops is an edge.
C3_CrawlFindsAllWithinDepth ==
    (pc = "check" /\ net = NetAllOk) =>
        EdgeUrls(all_links) = BfsEdgeUrls(Entry, max_depth)

\* C4: with max_depth = 0 the pass fetches the entry URL only, makes no
\* nested call, and returns one edge per http/https anchor of the entry page,
\* in document order.
C4_DepthZeroEntryOnly ==
    max_depth = 0 =>
        /\ Len(stack) <= 1
        /\ InPass => LogUrls(crawl_log) \subseteq {Entry}
        /\ pc = "check" =>
              /\ Len(crawl_log) = 1
              /\ crawl_log[1].ok => all_links = PageEdges(PageOf(site, Entry).anchors)

\* a depth-0 pass that returned an edge to a same-domain page and one to
\* another host
C4_Witness ==
    /\ max_depth = 0
    /\ pc = "check"
    /\ \E j, k \in 1..Len(all_links) :
          /\ netloc(all_links[j][2]) = base_domain
          /\ all_links[j][2] # Entry
          /\ netloc(all_links[k][2]) # base_domain

\* C5 as claimed: every URL the crawler fetches is on the base domain.
C5_OnlyBaseDomainFetched ==
    \A k \in 1..Len(crawl_log) : netloc(crawl_log[k].url) = base_domain

\* the http/https anchors of the successfully crawled pages that point to
\* another host
CrossDomainEdges ==
    UNION { { e \in Range(PageEdges(PageOf(site, crawl_log[k].url).anchors)) :
                netloc(e[2]) # base_domain }
            : k \in {j \in 1..Len(crawl_log) : crawl_log[j].ok} }

\* C5 as amended: the only URL the crawler fetches without looking at its
\* host is the pass's entry URL, at depth 0; every URL it recurses into is on
\* the base domain, and the anchors of crawled pages that point to other
\* hosts are in the edge list.
C5_RecursionStaysOnBaseDomain ==
    InPass =>
        /\ \A k \in 1..Len(crawl_log) :
              /\ crawl_log[k].depth = 0 => k = 1 /\ crawl_log[k].url = Entry
              /\ crawl_log[k].depth >= 1 => netloc(crawl_log[k].url) = base_domain
        /\ pc = "check" => CrossDomainEdges \subseteq Range(all_links)

\* a finished pass that recursed and recorded a cross-domain edge it never
\* fetched
C5_Witness ==
    /\ pc = "check"
    /\ \E k \in 1..Len(crawl_log) : crawl_log[k].depth >= 1
    /\ \E k \in 1..Len(all_links) :
          /\ netloc(all_links[k][2]) # base_domain
          /\ all_links[k][2] \notin LogUrls(crawl_log)

\* C6: once analyze_all_languages has computed the goal from the homepage,
\* no later step changes main_website_goal.
C6_GoalNeverRewritten ==
    [][pc # "start" => main_website_goal' = main_website_goal]_vars

\* the URLs of the calls that have marked their URL and not yet fetched it
PendingUrls == {stack[k].url : k \in {j \in 1..Len(stack) : stack[j].st = "fetch"}}

\* C7: the visited set holds nothing of earlier variants: during a pass it is
\* exactly the set of URLs the crawler was called on in this pass, so a URL
\* fetched in an earlier pass is fetched again when this pass comes to it.
C7_VisitedResetPerVariant ==
    InPass => visited_links = LogUrls(crawl_log) \cup PendingUrls

\* a URL fetched in an earlier variant's pass has been fetched again
C7_Witness ==
    /\ InPass
    /\ li >= 2
    /\ \E u \in earlier_fetched : u \in LogUrls(crawl_log) /\ u # Entry

\* C8: a failed fetch is mapped to its typed result and is never classified.
C8_FailureMapping ==
    LET o == last_check.outcome
        r == last_check.result
    IN  /\ o.kind = "timeout" => r.status = "TIMEOUT" /\ ~ last_check.classified
        /\ o.kind = "connection" =>
              r.status = "CONNECTION_ERROR" /\ ~ last_check.classified
        /\ o.kind = "other" =>
              r.status = "ERROR" /\ r.reason = << o.msg >> /\ ~ last_check.classified
        /\ (o.kind = "response" /\ o.code >= 400) =>
              /\ r.status = "BROKEN"
              /\ r.reason[2] = o.code
              /\ ~ last_check.classified

\* a link that answered 404 has been checked
C8_Witness ==
    /\ last_check.outcome = OutNotFound
    /\ last_check.result.status = "BROKEN"

VerdictKeys == {"relevance_score", "is_suspicious", "reasons", "summary"}

\* what the dict says: suspicious, score below the threshold
SaysSuspicious(analysis) == Has(analysis, "is_suspicious") /\ analysis.is_suspicious
SaysLowRelevance(analysis) ==
    Has(analysis, "relevance_score") /\ analysis.relevance_score < 4

\* C9: after a fetch with status < 400, check_link returns a FLAGGED result
\* when the verdict is suspicious or scores below 4, and None otherwise.
C9_FlaggedIffIssue ==
    LET o == last_check.outcome
        v == last_check.analysis
        r == last_check.result
    IN  (o.kind = "response" /\ o.code < 400) =>
            IF SaysSuspicious(v) \/ SaysLowRelevance(v)
            THEN r.status = "FLAGGED"
            ELSE r = None

\* the external model call did not produce a complete verdict
ClassificationFailed ==
    \/ ~ ai.has_key
    \/ ai.reply.kind \in {"raise", "malformed"}
    \/ ai.reply.kind = "dict" /\ DOMAIN ai.reply.value # VerdictKeys

\* C10: whenever the external model call fails, the verdict check_link gets
\* is the heuristic verdict on the same inputs, and the link does not become
\* an ERROR result.
C10_ClassifierFallsBack ==
    (last_check.classified /\ ClassificationFailed) =>
        /\ DOMAIN last_check.analysis = VerdictKeys
        /\ last_check.analysis = FallbackAnalysis(last_check.content, last_check.goal)
        /\ last_check.result.status # "ERROR"

\* C11: every verdict analyze_content hands to check_link, from the external
\* model or from the heuristic, carries an integer relevance score in 1..10.
C11_ScoreInRange ==
    last_check.classified =>
        /\ Has(last_check.analysis, "relevance_score")
        /\ last_check.analysis.relevance_score \in 1..10

\* Reference count: the goal is read character by character; each maximal run
\* of non-whitespace characters that occurs in the text counts once.
RECURSIVE TokensFound(_, _, _)
TokensFound(goal, cur, text) ==
    IF goal = << >>
    THEN IF cur # << >> /\ Contains(text, cur) THEN 1 ELSE 0
    ELSE IF Head(goal) \in Whitespace
         THEN (IF cur # << >> /\ Contains(text, cur) THEN 1 ELSE 0)
              + TokensFound(Tail(goal), << >>, text)
         ELSE TokensFound(Tail(goal), Append(cur, Head(goal)), text)

\* n of the claim, for the call in the state
CallMatches == TokensFound(Lower(call.goal), << >>, Lower(call.content))

\* C12: the heuristic relevance score is clamp(2 * n, 1, 10), n the number of
\* whitespace-separated tokens of the lower-cased goal that occur in the
\* lower-cased text; it is an integer in 1..10 for every text and goal.
C12_HeuristicScore ==
    call.returned =>
        /\ call.verdict.relevance_score =
              (IF 2 * CallMatches < 1 THEN 1
               ELSE IF 2 * CallMatches > 10 THEN 10
               ELSE 2 * CallMatches)
        /\ call.verdict.relevance_score \in 1..10

\* a call in which more than five goal tokens matched: the doubled count is
\* above 10
C12_Witness ==
    /\ call.returned
    /\ CallMatches >= 6
    /\ call.verdict.relevance_score = 10

\* C13: the heuristic reports a text as suspicious exactly when the
\* lower-cased text contains a phrase of the scam list, whatever the goal, and
\* gives reasons exactly when it does.
C13_SuspiciousIffScamPhrase ==
    call.returned =>
        /\ call.verdict.is_suspicious =
              (\E phrase \in Range(scam_keywords) :
                  Contains(Lower(call.content), phrase))
        /\ \A g \in {TxtEmpty, TxtArtShop, TxtActNow} :
              FallbackAnalysis(call.content, g).is_suspicious
                  = call.verdict.is_suspicious
        /\ (call.verdict.reasons # << >>) = call.verdict.is_suspicious

\* a text with a scam phrase in capitals was analysed against a goal that has
\* nothing to do with it
C13_Witness ==
    /\ call.returned
    /\ call.content = TxtFreeMoney
    /\ call.goal = <<"A", "r", "t">>
    /\ call.verdict.relevance_score = 1
    /\ call.verdict.is_suspicious

FailureStatuses == {"BROKEN", "TIMEOUT", "CONNECTION_ERROR", "ERROR"}

\* C14: when the outcome of a fetch depends on the URL only, every URL whose
\* fetch failed in the crawl of a variant, the entry URL included, has a
\* result with a failure status in the list analyze_language_version returns.
C14_CrawlFailuresResurface ==
    (pc = "check" /\ ci > Len(all_links) /\ Cardinality(net.outcomes) = 1) =>
        \A k \in 1..Len(crawl_log) :
            ~ crawl_log[k].ok =>
                \E r \in Range(problematic_links) :
                    r.url = crawl_log[k].url /\ r.status \in FailureStatuses

\* the codes of the first n variants of the list the loop iterates over
CodesUpTo(n) == {langs[k].code : k \in 1..n}

\* No exception has left the run; every variant the loop is past has its
\* entry in the map, whatever failed while it was analysed; the run has a
\* step to take until it returns.
RunIsSound ==
    /\ pc # "raised"
    /\ pc \in {"variant", "crawl", "check"} =>
          /\ li \in 1..(Len(langs) + 1)
          /\ DOMAIN results_by_language = CodesUpTo(li - 1)
    /\ pc \in {"crawl", "check"} => li <= Len(langs)
    /\ pc = "crawl" => CrawlCanStep
    /\ pc = "start" => OutcomesOf(net, base_url) # {}
    /\ pc = "done" => DOMAIN results_by_language = CodesUpTo(Len(langs))

PhaseNo(p) ==
    CASE p = "start"   -> 0
      [] p = "variant" -> 1
      [] p = "crawl"   -> 2
      [] p = "check"   -> 3
      [] OTHER         -> 4

\* Every step moves the run forward in a well-founded order: it returns, or
\* goes on to the next variant, or to a later phase of the same variant, or
\* lowers the crawl's rank, or goes on to the next edge of a fixed edge list.
RunAdvances ==
    \/ pc # "done" /\ pc' = "done"
    \/ li' > li /\ langs' = langs
    \/ li' = li /\ PhaseNo(pc') > PhaseNo(pc) /\ pc' # "raised"
    \/ li' = li /\ pc = "crawl" /\ pc' = "crawl" /\ CrawlRank' < CrawlRank
    \/ /\ li' = li /\ pc = "check" /\ pc' = "check"
       /\ all_links' = all_links
       /\ ci' = ci + 1 /\ ci' <= Len(all_links) + 1

\* C15: whatever fetches fail (homepage, a variant's entry URL, a link),
\* analyze_all_languages raises nothing, comes to its end, and returns a map
\* with one entry for every code of the detected languages; a failure in one
\* variant does not keep the later variants from being analysed.
C15_RunCompletes == [] RunIsSound /\ [][RunAdvances]_vars

\* a run that returned after the entry URL of its first variant could not be
\* fetched and a later variant was crawled and checked
C15_Witness ==
    /\ pc = "done"
    /\ Len(langs) >= 2
    /\ net.url = langs[1].url
    /\ OutOk \notin net.outcomes
    /\ results_by_language[langs[1].code] = << >>
    /\ \E k \in 1..Len(io_log) :
          io_log[k].variant = 2 /\ io_log[k].phase = "check"

\* C16: between any two consecutive fetches of a run there is a sleep.
C16_SleepBetweenFetches ==
    \A k \in 1..(Len(io_log) - 1) :
        ~ (io_log[k].op = "fetch" /\ io_log[k + 1].op = "fetch")

NotNone(r) == r # None

\* C17: analyze_language_version returns the non-null check results of the
\* crawl's edges, in the order of the edges, each carrying the variant's
\* code; every result stored under a key of the map has that key as language.
C17_ResultsAreNonNullChecks ==
    /\ pc = "check" =>
          /\ Len(check_log) = ci - 1
          /\ problematic_links = SelectSeq(check_log, NotNone)
          /\ \A k \in 1..Len(check_log) :
                check_log[k] # None =>
                    /\ check_log[k].title = all_links[k][1]
                    /\ check_log[k].url = all_links[k][2]
                    /\ check_log[k].language = langs[li].code
    /\ ((pc = "variant" /\ li > 1) \/ pc = "done") =>
          /\ Len(check_log) = Len(all_links)
          /\ results_by_language[langs[li - 1].code] = SelectSeq(check_log, NotNone)
    /\ \A c \in DOMAIN results_by_language :
          \A k \in 1..Len(results_by_language[c]) :
              results_by_language[c][k].language = c

\* a run over two variants, both with results, whose last list leaves out a
\* null result that came before a result
C17_Witness ==
    /\ pc = "done"
    /\ Len(langs) >= 2
    /\ results_by_language[langs[1].code] # << >>
    /\ \E i, j \in 1..Len(check_log) :
          i < j /\ check_log[i] = None /\ check_log[j] # None

\* the anchors of the homepage that carry a lang parameter
HomepageLangAnchors ==
    {k \in 1..Len(PageOf(site, base_url).anchors) :
        LangParam(PageOf(site, base_url).anchors[k].href) # ""}

TheDefaultVariant == [code |-> "default", name |-> "Default", url |-> base_url]

\* C18: detect_languages never returns an empty list; without a switcher
\* anchor that has a lang code and without a lang parameter in the base URL
\* it returns the default variant alone; analyze_all_languages uses the same
\* default variant when the homepage fetch raises.
C18_NeverNoLanguage ==
    pc # "start" =>
        /\ langs # << >>
        /\ detected_languages # << >>
        /\ (HomepageLangAnchors = {} /\ LangParam(base_url) = "") =>
              langs = << TheDefaultVariant >>
        /\ (net.url = base_url
               /\ net.outcomes \subseteq {OutTimeout, OutConnection, OutOther}) =>
              langs = << TheDefaultVariant >>

\* the homepage of a site with a language switcher could not be connected to,
\* and the run went on with the default variant
C18_Witness ==
    /\ pc = "done"
    /\ HomepageLangAnchors # {}
    /\ net = Net(base_url, {OutConnection})
    /\ DOMAIN results_by_language = {"default"}

\* C19: the codes of the detected variants are pairwise distinct, and the
\* variant kept for a code is the one of the first switcher anchor, in
\* document order, that carries the code.
C19_CodesDistinctFirstWins ==
    pc # "start" =>
        /\ \A j, k \in 1..Len(langs) : langs[j].code = langs[k].code => j = k
        /\ \A j, k \in 1..Len(detected_languages) :
              detected_languages[j].code = detected_languages[k].code => j = k
        /\ (langs # << TheDefaultVariant >> /\ HomepageLangAnchors # {}) =>
              \A n \in 1..Len(langs) :
                  \E k \in HomepageLangAnchors :
                      LET a == PageOf(site, base_url).anchors[k]
                      IN  /\ LangParam(a.href) = langs[n].code
                          /\ \A m \in HomepageLangAnchors :
                                LangParam(PageOf(site, base_url).anchors[m].href)
                                    = langs[n].code => k <= m
                          /\ langs[n].url = a.href
                          /\ langs[n].name =
                                (IF a.text # "" THEN a.text ELSE langs[n].code)

\* a homepage with two anchors for French: the first one's name and URL
\* are kept
C19_Witness ==
    /\ pc = "variant"
    /\ Cardinality({k \in HomepageLangAnchors :
           LangParam(PageOf(site, base_url).anchors[k].href) = "fr"}) = 2
    /\ Len(langs) = 2
    /\ langs[1] = LanguageVersion("fr", "Francais", U_fr)

\* C20: of any two fetches of a run, the later one belongs to the same or to
\* a later variant, and within a variant no crawl fetch follows a check fetch.
C20_VariantsInSequence ==
    \A j, k \in 1..Len(io_log) :
        (j < k /\ io_log[j].op = "fetch" /\ io_log[k].op = "fetch") =>
            /\ io_log[j].variant <= io_log[k].variant
            /\ io_log[j].variant = io_log[k].variant =>
                  ~ (io_log[j].phase = "check" /\ io_log[k].phase = "crawl")

\* a run that crawled and checked two variants
C20_Witness ==
    /\ pc = "done"
    /\ \A v \in {1, 2} : \A ph \in {"crawl", "check"} :
          \E k \in 1..Len(io_log) :
              io_log[k].op = "fetch" /\ io_log[k].variant = v /\ io_log[k].phase = ph

IsMetaDescription(e) ==
    e.tag = "meta" /\ e.name = "description" /\ e.content # << >>

\* C22: the goal taken from the homepage is the content of its meta
\* description when it has one with content, and only otherwise its title
\* followed by its first paragraph; at most 500 characters either way.
C22_MetaDescriptionFirst ==
    (pc = "variant" /\ li = 1 /\ net.url # base_url) =>
        LET soup  == PageOf(site, base_url)
            metas == SelectSeq(soup.elements, IsMetaDescription)
        IN  main_website_goal =
                IF metas # << >>
                THEN Truncate(metas[1].content, 500)
                ELSE Truncate(Strip(soup.title.text \o << " " >> \o soup.first_p.text),
                              500)

\* a step in which the crawler's fetch failed
CrawlFetchFailed ==
    /\ pc = "crawl"
    /\ Len(crawl_log') = Len(crawl_log) + 1
    /\ ~ crawl_log'[Len(crawl_log')].ok

\* C23: when the crawler's fetch of a page fails, the call returns no edge,
\* the URL stays in the visited set, nothing is raised, and the calling
\* frame goes on from where it was with the edges it had.
C23_FailedFetchYieldsNothing ==
    [][ CrawlFetchFailed =>
          /\ pc' # "raised"
          /\ visited_links' = visited_links
          /\ Top.url \in visited_links'
          /\ IF Callers = << >>
             THEN pc' = "check" /\ all_links' = << >>
             ELSE pc' = "crawl" /\ stack' = Callers ]_vars

\* the fetch of a linked page has just failed, and the calling frame, which
\* holds the edge to it, has anchors left
C23_Witness ==
    /\ pc = "crawl"
    /\ Len(crawl_log) >= 2
    /\ ~ crawl_log[Len(crawl_log)].ok
    /\ Top.st = "loop"
    /\ Top.depth + 1 = crawl_log[Len(crawl_log)].depth
    /\ Top.i <= Len(Top.body)
    /\ Top.links # << >>
    /\ Top.links[Len(Top.links)][2] = crawl_log[Len(crawl_log)].url

\* Reference: the pre-order edge list, computed call by call.  A call returns
\* its edges and the visited set it leaves behind; the fetch outcome of a URL
\* is the one outcome the network has for it.
RECURSIVE PreOrderCall(_, _, _)
RECURSIVE PreOrderAnchors(_, _, _, _)
PreOrderCall(url, depth, visited) ==
    IF depth > max_depth \/ url \in visited
    THEN [links |-> << >>, visited |-> visited]
    ELSE LET o == CHOOSE x \in OutcomesOf(net, url) : TRUE
         IN  IF o.kind = "response" /\ o.code < 400
             THEN PreOrderAnchors(PageOf(site, url).anchors, depth,
                                  visited \cup {url}, << >>)
             ELSE [links |-> << >>, visited |-> visited \cup {url}]

PreOrderAnchors(anchors, depth, visited, links) ==
    IF anchors = << >>
    THEN [links |-> links, visited |-> visited]
    ELSE LET a == Head(anchors)
         IN  IF a.href \notin Urls
             THEN PreOrderAnchors(Tail(anchors), depth, visited, links)
             ELSE LET edge == << IF a.text # "" THEN a.text ELSE a.href, a.href >>
                      sub  == IF depth < max_depth /\ netloc(a.href) = base_domain
                              THEN PreOrderCall(a.href, depth + 1, visited)
                              ELSE [links |-> << >>, visited |-> visited]
                  IN  PreOrderAnchors(Tail(anchors), depth, sub.visited,
                                      links \o << edge >> \o sub.links)

\* C24: the edge list of a pass is in depth-first pre-order: each http/https
\* anchor's edge, followed at once by the edges of its target's sub-crawl
\* when that is crawled, before the page's next anchor; other anchors give
\* no edge.
C24_EdgesInPreOrder ==
    (pc = "check" /\ Cardinality(net.outcomes) = 1) =>
        all_links = PreOrderCall(Entry, 0, {}).links

\* a pass at depth 1 over a page with a mailto anchor and an anchor to a page
\* with three anchors of its own
C24_Witness ==
    /\ pc = "check"
    /\ site = "self"
    /\ max_depth = 1
    /\ net = NetAllOk
    /\ Len(all_links) = 7
    /\ all_links[3][2] = U_a
    /\ all_links[6][2] = U_c
    /\ all_links[7][1] = "A again"

\* During a pass the visited set is the URLs the crawler has fetched and the
\* URL of the innermost call when that call has marked its URL and fetches
\* next; every fetch and every call is at a depth within 0..max_depth, the
\* depth of a call being its place in the call chain, each link of which is a
\* same-domain anchor of the caller's page.
CrawlIsBounded ==
    InPass =>
        /\ visited_links = LogUrls(crawl_log) \cup PendingUrls
        /\ PendingUrls \subseteq (IF stack = << >> THEN {} ELSE {Top.url})
        /\ \A k \in 1..Len(crawl_log) : crawl_log[k].depth \in 0..max_depth
        /\ \A k \in 1..Len(stack) :
              /\ stack[k].depth = k - 1
              /\ stack[k].depth <= max_depth
              /\ k > 1 =>
                    /\ netloc(stack[k].url) = base_domain
                    /\ stack[k].url = stack[k - 1].body[stack[k - 1].i - 1].href

\* within a pass the visited set only grows
VisitedGrows == (InPass /\ pc' \in {"crawl", "check"}) => visited_links \subseteq visited_links'

\* C25: throughout a crawl pass visited_links is the set of URLs the crawler
\* has fetched in this pass and only grows; every fetch is at a depth
\* 0..max_depth that counts the same-domain hops from the entry URL; no call
\* is made beyond max_depth.
C25_VisitedAndDepthBounded == [] CrawlIsBounded /\ [][VisitedGrows]_vars

\* a fetch at the depth bound, two hops from the entry URL
C25_Witness ==
    /\ pc = "crawl"
    /\ max_depth = 2
    /\ Len(stack) = 3
    /\ Top.st = "loop"
    /\ crawl_log[Len(crawl_log)].depth = max_depth
    /\ crawl_log[Len(crawl_log)].url = Top.url

IsCheckFetchOfVariant(e) == e.op = "fetch" /\ e.phase = "check" /\ e.variant = li

\* C26: the checking loop fetches every edge of the edge list once, in
\* order, whether or not its URL is in the visited set; a URL that is the
\* target of k edges is checked k times and, when it has an issue, has k
\* results in the list.
C26_OneCheckPerEdge ==
    pc = "check" =>
        /\ LET fetched == SelectSeq(io_log, IsCheckFetchOfVariant)
           IN  /\ Len(fetched) = ci - 1
               /\ \A k \in 1..Len(fetched) : fetched[k].url = all_links[k][2]
        /\ \A u \in Urls :
              Cardinality({k \in 1..Len(problematic_links) :
                              problematic_links[k].url = u})
                  = Cardinality({k \in 1..(ci - 1) :
                                    all_links[k][2] = u /\ check_log[k] # None})
        /\ Cardinality(net.outcomes) = 1 =>
              \A j, k \in 1..(ci - 1) :
                  all_links[j][2] = all_links[k][2] =>
                      ((check_log[j] = None) <=> (check_log[k] = None))

\* a URL the crawler had fetched, target of two edges, was checked twice and
\* has two results
C26_Witness ==
    /\ pc = "check"
    /\ \E j, k \in 1..(ci - 1) :
          /\ j < k
          /\ all_links[j][2] = all_links[k][2]
          /\ all_links[j][2] \in LogUrls(crawl_log)
          /\ check_log[j] # None
          /\ check_log[k] # None

\* a finished run has crawled the entry URL of every variant of the first
\* detection once, under the variant's place in the list, and nothing else
EveryVariantOnce ==
    /\ (pc = "variant" /\ li = 1) => langs = detected_languages
    /\ \A k \in 1..Len(io_log) : io_log[k].variant <= Len(langs)
    /\ pc = "done" =>
          \A v \in 1..Len(langs) :
              Cardinality({k \in 1..Len(io_log) :
                              io_log[k] = Fetched("crawl", v, langs[v].url)}) = 1

\* C27: analyze_all_languages analyses each variant of the homepage's
\* detection once, in detection order; what the crawls assign to
\* detected_languages meanwhile does not change the variants analysed.
C27_VariantsFixedByFirstDetection ==
    [] EveryVariantOnce /\ [][pc # "start" => langs' = langs]_vars

\* a run over two variants has returned, and detected_languages is no longer
\* the list that was iterated
C27_Witness ==
    /\ pc = "done"
    /\ Len(langs) >= 2
    /\ detected_languages # langs
    /\ DOMAIN results_by_language = {langs[k].code : k \in 1..Len(langs)}

\* the result of the last check reports low relevance, with this score
ReportsLowRelevance(score) ==
    /\ last_check.result.status = "FLAGGED"
    /\ \E k \in 1..Len(last_check.result.reason) :
          /\ last_check.result.reason[k][1] = "LOW RELEVANCE"
          /\ last_check.result.reason[k][2] = score

\* C28: on the heuristic path a link checked against the empty goal is
\* FLAGGED for low relevance with score 1 whatever its text; a heuristic
\* score is never 3, and low relevance is reported exactly when fewer than
\* two goal tokens occur in the text.
C28_EmptyGoalFlagsEveryLink ==
    (last_check.classified /\ UsesFallback) =>
        LET score == last_check.analysis.relevance_score
            n     == TokensFound(Lower(last_check.goal), << >>,
                                 Lower(last_check.content))
        IN  /\ score # 3
            /\ ReportsLowRelevance(score) <=> n < 2
            /\ last_check.goal = << >> => ReportsLowRelevance(1)

\* a page with text was checked against the empty goal a title-less entry
\* page had left
C28_Witness ==
    /\ last_check.classified
    /\ UsesFallback
    /\ last_check.goal = << >>
    /\ last_check.content # << >>
    /\ last_check.outcome = OutOk
    /\ ReportsLowRelevance(1)

====
